---- MODULE Spec2Model ----
(***************************************************************************)
(* Content fetcher (src/lib/r2.ts) and static page generator               *)
(* (src/pages/index.astro, src/pages/blog/[slug].astro) of the astro-blog  *)
(* repository.                                                             *)
(*                                                                         *)
(* Strings are sequences of atoms.  The separator "/" is always an atom of *)
(* its own; every other atom stands for a piece of text without "/".       *)
(***************************************************************************)
EXTENDS Integers, Sequences, FiniteSets, TLC

VARIABLES env, siteBase, upstream, requests, logged, listing, gen, pages, emitted, urlCase,
          firstBuild, configReads, catUpstream, cat

vars == <<env, siteBase, upstream, requests, logged, listing, gen, pages, emitted, urlCase,
          firstBuild, configReads, catUpstream, cat>>

\* ------------------------------------------------------------------ bounds
MaxItems == 2
MaxBaseLen == 3

\* ------------------------------------------------------- input alphabets
Slugs == {"a", "b"}
BaseAtoms == {"h", "x", "/"}

SeqUpTo(S, n) == UNION {[1..k -> S] : k \in 0..n}

Last(s) == s[Len(s)]
Front(s) == SubSeq(s, 1, Len(s) - 1)

\* ------------------------------------------------------------ JS values
UndefinedStr == [set |-> FALSE, val |-> <<>>]
DefinedStr(s) == [set |-> TRUE, val |-> s]

NoErr == [kind |-> "none", status |-> 0, subject |-> ""]
Err(k, st, subj) == [kind |-> k, status |-> st, subject |-> subj]

\* !baseUrl : undefined and the empty string are falsy
FalsyStr(v) == ~v.set \/ v.val = <<>>

\* baseUrl.replace(/\/$/, '') : removes one "/" at the end of the input
replaceTrailingSlashIdentity(s) == s
replaceTrailingSlash(s) ==
    IF s # <<>> /\ Last(s) = "/" THEN Front(s) ELSE s

getR2BaseUrlNoEmptyCheck(e) ==
    IF ~e.set
    THEN [ok |-> FALSE, val |-> <<>>, err |-> Err("config", 0, "")]
    ELSE [ok |-> TRUE, val |-> replaceTrailingSlash(e.val), err |-> NoErr]
getR2BaseUrl(e) ==
    IF FalsyStr(e)
    THEN [ok |-> FALSE, val |-> <<>>, err |-> Err("config", 0, "")]
    ELSE [ok |-> TRUE, val |-> replaceTrailingSlash(e.val), err |-> NoErr]

getR2UrlRawBase(e, path) ==
    IF FalsyStr(e)
    THEN [ok |-> FALSE, val |-> <<>>, err |-> Err("config", 0, "")]
    ELSE [ok |-> TRUE, val |-> e.val \o <<"/">> \o path, err |-> NoErr]
getR2Url(e, path) ==
    LET baseUrl == getR2BaseUrl(e)
    IN  IF ~baseUrl.ok
        THEN baseUrl
        ELSE [ok |-> TRUE, val |-> baseUrl.val \o <<"/">> \o path, err |-> NoErr]

BlogIndexPath == <<"blogs", "/", "_index.json">>
BlogPathNoExtension(slug) == <<"blogs", "/", slug>>
BlogPath(slug) == <<"blogs", "/", slug, ".json">>

\* import.meta.env.PUBLIC_R2_BASE_URL is read in getR2BaseUrl, which getR2Url
\* calls in every helper call: n counts the reads
readConfigOnce(n) == IF n = 0 THEN 1 ELSE n
readConfig(n) == n + 1

\* the reads of k helper calls
RECURSIVE readConfigs(_, _)
readConfigs(n, k) == IF k = 0 THEN n ELSE readConfig(readConfigs(n, k - 1))

\* fetch(url): one request goes out when it is called
issueFetchTwice(log, url) == Append(Append(log, url), url)
issueFetch(log, url) == Append(log, url)

\* the calls of fetch(url) of a sequence of helper calls, in call order
RECURSIVE issueFetches(_, _)
issueFetchesCapped(log, urls) ==
    IF urls = <<>> THEN log ELSE issueFetch(log, Head(urls))
issueFetches(log, urls) ==
    IF urls = <<>> THEN log
    ELSE issueFetches(issueFetch(log, Head(urls)), Tail(urls))

\* --------------------------------------------------------- JSON documents
\* A decoded JSON value is tagged with its type; "absent" is JS undefined.
Truthy(v) == v.t \notin {"absent", "null", "zero", "emptystring"}
IsArray(v) == v.t = "array"

Absent == [t |-> "absent", v |-> <<>>]
AbsentTotal == [t |-> "absent", v |-> 0]

\* ItemSummary: an element of the index's items array
Summaries ==
    [slug : Slugs, name : {"idx1"}, summary : {"sum"}]
    \cup {[slug |-> "a", name |-> "idx2", summary |-> "sum"]}
ItemLists == SeqUpTo(Summaries, MaxItems)

NonObjectTypes == {"null", "zero", "number", "string", "array"}
NonArrayItems == {"absent", "null", "zero", "string", "object"}
TotalItems == {AbsentTotal, [t |-> "number", v |-> 1]}

IndexBodies ==
    {[t |-> ty, items |-> Absent, total |-> AbsentTotal] : ty \in NonObjectTypes}
    \cup {[t |-> "object", items |-> [t |-> ty, v |-> <<>>], total |-> AbsentTotal] :
             ty \in NonArrayItems}
    \cup {[t |-> "object", items |-> [t |-> "array", v |-> l], total |-> tot] :
             l \in ItemLists, tot \in TotalItems}

NullBody == [t |-> "null", items |-> Absent, total |-> AbsentTotal]

\* Blog: the full record of one item; body may be missing from the document
NoBody == [set |-> FALSE, val |-> ""]
HtmlBody == [set |-> TRUE, val |-> "html"]
NoBlog == [slug |-> "", name |-> "", body |-> NoBody]
BlogDocs(file) == [slug : Slugs, name : {"title-" \o file}, body : {NoBody, HtmlBody}]

\* ------------------------------------------------------------- responses
\* net = FALSE: fetch() rejects; json = FALSE: response.json() rejects
NetworkFailure(b) == [net |-> FALSE, status |-> 0, json |-> FALSE, body |-> b]
Response(st, b) == [net |-> TRUE, status |-> st, json |-> TRUE, body |-> b]
Undecodable(st, b) == [net |-> TRUE, status |-> st, json |-> FALSE, body |-> b]

FailStatuses == {300, 404, 500}

IndexResponses ==
    {NetworkFailure(NullBody), Undecodable(200, NullBody)}
    \cup {Response(st, NullBody) : st \in FailStatuses}
    \cup {Response(200, b) : b \in IndexBodies}
    \cup {Response(299, [t |-> "object", items |-> [t |-> "array", v |-> <<>>],
                         total |-> AbsentTotal])}

BlogResponses(file) ==
    {NetworkFailure(NoBlog), Undecodable(200, NoBlog), Response(404, NoBlog)}
    \cup {Response(200, d) : d \in BlogDocs(file)}

Upstreams ==
    {[index |-> ix, blogs |-> bl] :
        ix \in IndexResponses,
        bl \in {f \in [Slugs -> UNION {BlogResponses(s) : s \in Slugs}] :
                    \A s \in Slugs : f[s] \in BlogResponses(s)}}

\* Category documents, and the category index: a JSON array of slugs
NoCategory == [slug |-> "", name |-> ""]
CategoryDocs(file) == [slug : Slugs, name : {"cat-" \o file}]
SlugLists == SeqUpTo(Slugs, MaxItems)
CategoryIndexBodies ==
    {[t |-> ty, v |-> <<>>] : ty \in {"null", "object"}}
    \cup {[t |-> "array", v |-> l] : l \in SlugLists}

CategoryIndexResponses ==
    {NetworkFailure(Absent), Undecodable(200, Absent), Response(404, Absent)}
    \cup {Response(200, b) : b \in CategoryIndexBodies}

CategoryResponses(file) ==
    {NetworkFailure(NoCategory), Undecodable(200, NoCategory), Response(404, NoCategory)}
    \cup {Response(200, d) : d \in CategoryDocs(file)}

CatUpstreams ==
    {[index |-> ix, categories |-> cs] :
        ix \in CategoryIndexResponses,
        cs \in {f \in [Slugs -> UNION {CategoryResponses(s) : s \in Slugs}] :
                    \A s \in Slugs : f[s] \in CategoryResponses(s)}}

NoCatUpstream == [index |-> NetworkFailure(Absent),
                  categories |-> [s \in Slugs |-> NetworkFailure(NoCategory)]]

\* ------------------------------------------------------- src/lib/r2.ts
Resolve(v) == [ok |-> TRUE, val |-> v, err |-> NoErr]
Reject(empty, e) == [ok |-> FALSE, val |-> empty, err |-> e]

\* response.ok
responseOkBelow400(status) == status >= 200 /\ status < 400
responseOk(status) == status >= 200 /\ status <= 299

\* data && data.items && Array.isArray(data.items)
isBlogIndexNonEmpty(data) ==
    Truthy(data) /\ Truthy(data.items) /\ IsArray(data.items) /\ data.items.v # <<>>
isBlogIndexNoArrayCheck(data) == Truthy(data) /\ Truthy(data.items)
isBlogIndex(data) == Truthy(data) /\ Truthy(data.items) /\ IsArray(data.items)

\* fetchAllBlogs from the completion of `await fetch(url)` on
\* `await fetch(url)` rejects, or resolves with a response whose ok is false:
\* the helper throws there and never reaches `await response.json()`
throwsAtFetch(resp) == ~resp.net \/ ~responseOk(resp.status)

fetchAllBlogsFallback(resp) ==
    IF resp.net /\ responseOk(resp.status) /\ resp.json /\ isBlogIndex(resp.body)
    THEN Resolve(resp.body.items.v)
    ELSE Resolve(<<>>)
fetchAllBlogs(resp) ==
    IF ~resp.net THEN Reject(<<>>, Err("network", 0, ""))
    ELSE IF ~responseOk(resp.status) THEN Reject(<<>>, Err("status", resp.status, "index"))
    ELSE IF ~resp.json THEN Reject(<<>>, Err("json", 0, ""))
    ELSE IF isBlogIndex(resp.body) THEN Resolve(resp.body.items.v)
    ELSE Reject(<<>>, Err("format", 0, "index"))

\* fetchBlog(slug) from the completion of `await fetch(url)` on
fetchBlog(slug, resp) ==
    IF ~resp.net THEN Reject(NoBlog, Err("network", 0, ""))
    ELSE IF ~responseOk(resp.status) THEN Reject(NoBlog, Err("status", resp.status, slug))
    ELSE IF ~resp.json THEN Reject(NoBlog, Err("json", 0, ""))
    ELSE Resolve(resp.body)

CategoryIndexPath == <<"categories", "/", "_index.json">>
CategoryPath(slug) == <<"categories", "/", slug, ".json">>

\* fetchCategoryIndex from the completion of `await fetch(url)` on: the decoded
\* document is returned as it is
fetchCategoryIndex(resp) ==
    IF ~resp.net THEN Reject(Absent, Err("network", 0, ""))
    ELSE IF ~responseOk(resp.status)
         THEN Reject(Absent, Err("status", resp.status, "category index"))
    ELSE IF ~resp.json THEN Reject(Absent, Err("json", 0, ""))
    ELSE Resolve(resp.body)

\* fetchCategory(slug) from the completion of `await fetch(url)` on
fetchCategory(slug, resp) ==
    IF ~resp.net THEN Reject(NoCategory, Err("network", 0, ""))
    ELSE IF ~responseOk(resp.status) THEN Reject(NoCategory, Err("status", resp.status, slug))
    ELSE IF ~resp.json THEN Reject(NoCategory, Err("json", 0, ""))
    ELSE Resolve(resp.body)

\* ------------------------------------------------ src/pages/index.astro
\* href={`${base}/blog/${blog.slug}`}
linkFor(base, slug) == base \o <<"/", "blog", "/", slug>>

\* one <article class="blog-card"> per element of blogs.map(...)
blogCard(base, blog) ==
    [href |-> linkFor(base, blog.slug), title |-> blog.name, summary |-> blog.summary]

blogGridDropLast(base, blogs) ==
    [i \in 1..(IF Len(blogs) > 1 THEN Len(blogs) - 1 ELSE Len(blogs)) |->
        blogCard(base, blogs[i])]
blogGrid(base, blogs) == [i \in 1..Len(blogs) |-> blogCard(base, blogs[i])]

\* {blogs.length === 0 && (<p>No blog posts found.</p>)}
noPostsPlaceholder(blogs) == Len(blogs) = 0

\* ----------------------------------------- src/pages/blog/[slug].astro
\* the object returned by the callback of blogIndex.map(...)
staticPathFromRecordSlug(indexEntry, fullBlog) ==
    [params |-> [slug |-> fullBlog.slug], props |-> [blog |-> fullBlog]]
staticPath(indexEntry, fullBlog) ==
    [params |-> [slug |-> indexEntry.slug], props |-> [blog |-> fullBlog]]

NoPath == staticPath([slug |-> ""], NoBlog)

PendingSlot == [st |-> "pending", val |-> NoPath, err |-> NoErr]
PendingAll == [st |-> "pending", val |-> <<>>, err |-> NoErr]

\* The promise of one callback of blogIndex.map(...) once its fetch completes
settleSlot(indexEntry, resp) ==
    LET r == fetchBlog(indexEntry.slug, resp)
    IN  IF r.ok
        THEN [st |-> "fulfilled", val |-> staticPath(indexEntry, r.val), err |-> NoErr]
        ELSE [st |-> "rejected", val |-> NoPath, err |-> r.err]

\* Promise.all over the slots, after slot i has settled: rejects with the first
\* rejection, fulfils with all the values in input order once all are fulfilled
promiseAllSettledValues(all, slots, i) ==
    IF all.st # "pending" THEN all
    ELSE IF \A j \in 1..Len(slots) : slots[j].st # "pending"
         THEN [st |-> "fulfilled",
               val |-> LET done == SelectSeq(slots, LAMBDA sl : sl.st = "fulfilled")
                       IN  [j \in 1..Len(done) |-> done[j].val],
               err |-> NoErr]
         ELSE all
promiseAllFirstFulfilled(all, slots, i) ==
    IF all.st # "pending" THEN all
    ELSE IF slots[i].st = "rejected"
         THEN [st |-> "rejected", val |-> <<>>, err |-> slots[i].err]
         ELSE [st |-> "fulfilled",
               val |-> LET done == SelectSeq(slots, LAMBDA sl : sl.st = "fulfilled")
                       IN  [j \in 1..Len(done) |-> done[j].val],
               err |-> NoErr]
promiseAllLastErrorWins(all, slots, i) ==
    IF all.st = "fulfilled" THEN all
    ELSE IF slots[i].st = "rejected"
         THEN [st |-> "rejected", val |-> <<>>, err |-> slots[i].err]
    ELSE IF \A j \in 1..Len(slots) : slots[j].st = "fulfilled"
         THEN [st |-> "fulfilled", val |-> [j \in 1..Len(slots) |-> slots[j].val],
               err |-> NoErr]
         ELSE all
promiseAllNeverRejects(all, slots, i) ==
    IF all.st # "pending" THEN all
    ELSE IF \A j \in 1..Len(slots) : slots[j].st = "fulfilled"
         THEN [st |-> "fulfilled", val |-> [j \in 1..Len(slots) |-> slots[j].val],
               err |-> NoErr]
         ELSE all
promiseAllCompletionOrder(all, slots, i) ==
    IF all.st # "pending" THEN all
    ELSE IF slots[i].st = "rejected"
         THEN [st |-> "rejected", val |-> <<>>, err |-> slots[i].err]
    ELSE IF \A j \in 1..Len(slots) : slots[j].st = "fulfilled"
         THEN [st |-> "fulfilled",
               val |-> LET early == SelectSeq([j \in 1..Len(slots) |-> j], LAMBDA j : j # i)
                       IN  [j \in 1..Len(early) |-> slots[early[j]].val] \o <<slots[i].val>>,
               err |-> NoErr]
         ELSE all
promiseAll(all, slots, i) ==
    IF all.st # "pending" THEN all
    ELSE IF slots[i].st = "rejected"
         THEN [st |-> "rejected", val |-> <<>>, err |-> slots[i].err]
    ELSE IF \A j \in 1..Len(slots) : slots[j].st = "fulfilled"
         THEN [st |-> "fulfilled", val |-> [j \in 1..Len(slots) |-> slots[j].val],
               err |-> NoErr]
         ELSE all

\* The file the route src/pages/blog/[slug].astro emits for params.slug, as
\* the build prints it ("/blog/my-first-post/index.html")
detailPath(slug) == <<"/", "blog", "/", slug, "/", "index.html">>

\* the detail page template applied to one entry of getStaticPaths()
detailPageTitleFromParams(base, entry) ==
    [slug |-> entry.params.slug,
     path |-> detailPath(entry.params.slug),
     title |-> entry.params.slug,
     body |-> entry.props.blog.body,
     back |-> base]
detailPage(base, entry) ==
    [slug |-> entry.params.slug,
     path |-> detailPath(entry.params.slug),
     title |-> entry.props.blog.name,
     body |-> entry.props.blog.body,
     back |-> base]

detailPages(base, paths) == [i \in 1..Len(paths) |-> detailPage(base, paths[i])]

\* ------------------------------------------------------------ the build
ConfiguredBases ==
    {UndefinedStr, DefinedStr(<<>>), DefinedStr(<<"h", "/">>)}

\* import.meta.env.BASE_URL: "/" when astro.config.mjs sets no base, "/r" for
\* base: '/YOUR-REPO-NAME'
SiteBases == {<<"/">>, <<"/", "r">>}

NoUrlCase == [base |-> UndefinedStr, path |-> <<>>, done |-> FALSE,
              out |-> Reject(<<>>, NoErr), outSlash |-> Reject(<<>>, NoErr)]

\* inJson: fetchAllBlogs has passed `await fetch(url)` and the response.ok
\* check and waits in `await response.json()`
ListingStart == [pc |-> "start", inJson |-> FALSE, blogs |-> <<>>, cards |-> <<>>,
                 placeholder |-> FALSE, err |-> NoErr]
\* itemsInJson: the indices of the fetchBlog calls that wait in
\* `await response.json()`; arrived: the indices of the fetchBlog calls in the
\* order they settled
GenStart == [pc |-> "start", inJson |-> FALSE, blogIndex |-> <<>>, slots |-> <<>>,
             itemsInJson |-> {}, all |-> PendingAll,
             paths |-> <<>>, err |-> NoErr, arrived |-> <<>>]

\* fetchAllCategories before it is called
CatStart == [pc |-> "start", inJson |-> FALSE, slugs |-> <<>>, slots |-> <<>>,
             itemsInJson |-> {}, all |-> PendingAll,
             categories |-> <<>>, err |-> NoErr, arrived |-> <<>>]

\* what a finished build has produced: the listing page and the detail pages
Output(l, e, p) ==
    [listed |-> l.pc = "done", cards |-> l.cards, placeholder |-> l.placeholder,
     emitted |-> e, pages |-> p]
NoBuild == [done |-> FALSE, output |-> Output(ListingStart, FALSE, <<>>), arrived |-> <<>>]

Init ==
    /\ env \in ConfiguredBases
    /\ siteBase \in SiteBases
    /\ upstream \in Upstreams
    /\ requests = <<>>
    /\ logged = <<>>
    /\ listing = ListingStart
    /\ gen = GenStart
    /\ pages = <<>>
    /\ emitted = FALSE
    /\ urlCase = NoUrlCase
    /\ firstBuild = NoBuild
    /\ configReads = 0
    /\ catUpstream = NoCatUpstream
    /\ cat = CatStart

\* index.astro frontmatter: `await fetchAllBlogs()` up to the call of fetch(url)
ListingCallFetchAllBlogs ==
    /\ listing.pc = "start"
    /\ LET url == getR2Url(env, BlogIndexPath)
       IN  IF url.ok
           THEN /\ requests' = issueFetch(requests, url.val)
                /\ listing' = [listing EXCEPT !.pc = "fetching"]
           ELSE /\ listing' = [listing EXCEPT !.pc = "failed", !.err = url.err]
                /\ UNCHANGED requests
    /\ configReads' = readConfig(configReads)
    /\ UNCHANGED <<env, siteBase, upstream, logged, gen, pages, emitted, urlCase, firstBuild,
                   catUpstream, cat>>

\* `await fetch(url)` of the listing's fetchAllBlogs settles (the status line
\* and headers of the index response, or a network error): the helper throws,
\* or goes on to wait in `await response.json()`
ListingIndexResponded ==
    /\ listing.pc = "fetching"
    /\ ~listing.inJson
    /\ LET r == fetchAllBlogs(upstream.index)
       IN  IF throwsAtFetch(upstream.index)
           THEN /\ listing' = [listing EXCEPT !.pc = "failed", !.err = r.err]
                /\ logged' = Append(logged, [by |-> "fetchAllBlogs", err |-> r.err])
           ELSE /\ listing' = [listing EXCEPT !.inJson = TRUE]
                /\ UNCHANGED logged
    /\ UNCHANGED <<env, siteBase, upstream, requests, gen, pages, emitted, urlCase, firstBuild,
                   configReads, catUpstream, cat>>

\* `await response.json()` settles (the body of the index response): rest of
\* fetchAllBlogs, then the template renders
ListingIndexSettled ==
    /\ listing.pc = "fetching"
    /\ listing.inJson
    /\ LET r == fetchAllBlogs(upstream.index)
       IN  IF r.ok
           THEN /\ listing' = [listing EXCEPT !.pc = "done", !.inJson = FALSE,
                                              !.blogs = r.val,
                                              !.cards = blogGrid(siteBase, r.val),
                                              !.placeholder = noPostsPlaceholder(r.val)]
                /\ UNCHANGED logged
           ELSE /\ listing' = [listing EXCEPT !.pc = "failed", !.inJson = FALSE,
                                              !.err = r.err]
                /\ logged' = Append(logged, [by |-> "fetchAllBlogs", err |-> r.err])
    /\ UNCHANGED <<env, siteBase, upstream, requests, gen, pages, emitted, urlCase, firstBuild,
                   configReads, catUpstream, cat>>

\* getStaticPaths: `await fetchAllBlogs()` up to the call of fetch(url)
GenCallFetchAllBlogsShared ==
    /\ gen.pc = "start"
    /\ LET url == getR2Url(env, BlogIndexPath)
       IN  IF url.ok
           THEN /\ requests' = IF listing.pc = "start"
                                THEN issueFetch(requests, url.val)
                                ELSE requests
                /\ gen' = [gen EXCEPT !.pc = "index"]
           ELSE /\ gen' = [gen EXCEPT !.pc = "failed", !.err = url.err]
                /\ UNCHANGED requests
    /\ configReads' = readConfig(configReads)
    /\ UNCHANGED <<env, siteBase, upstream, logged, listing, pages, emitted, urlCase, firstBuild,
                   catUpstream, cat>>
GenCallFetchAllBlogsPrefetch ==
    /\ gen.pc = "start"
    /\ LET url == getR2Url(env, BlogIndexPath)
       IN  IF url.ok
           THEN /\ requests' = issueFetch(issueFetch(requests, url.val),
                                          getR2Url(env, BlogPath("a")).val)
                /\ gen' = [gen EXCEPT !.pc = "index"]
           ELSE /\ gen' = [gen EXCEPT !.pc = "failed", !.err = url.err]
                /\ UNCHANGED requests
    /\ configReads' = readConfig(configReads)
    /\ UNCHANGED <<env, siteBase, upstream, logged, listing, pages, emitted, urlCase, firstBuild,
                   catUpstream, cat>>
GenCallFetchAllBlogs ==
    /\ gen.pc = "start"
    /\ LET url == getR2Url(env, BlogIndexPath)
       IN  IF url.ok
           THEN /\ requests' = issueFetch(requests, url.val)
                /\ gen' = [gen EXCEPT !.pc = "index"]
           ELSE /\ gen' = [gen EXCEPT !.pc = "failed", !.err = url.err]
                /\ UNCHANGED requests
    /\ configReads' = readConfig(configReads)
    /\ UNCHANGED <<env, siteBase, upstream, logged, listing, pages, emitted, urlCase, firstBuild,
                   catUpstream, cat>>

\* `await fetch(url)` of getStaticPaths' fetchAllBlogs settles: the helper
\* throws, or goes on to wait in `await response.json()`
GenIndexResponded ==
    /\ gen.pc = "index"
    /\ ~gen.inJson
    /\ LET r == fetchAllBlogs(upstream.index)
       IN  IF throwsAtFetch(upstream.index)
           THEN /\ gen' = [gen EXCEPT !.pc = "failed", !.err = r.err]
                /\ logged' = Append(logged, [by |-> "fetchAllBlogs", err |-> r.err])
           ELSE /\ gen' = [gen EXCEPT !.inJson = TRUE]
                /\ UNCHANGED logged
    /\ UNCHANGED <<env, siteBase, upstream, requests, listing, pages, emitted, urlCase,
                   firstBuild, configReads, catUpstream, cat>>

\* `await response.json()` settles in getStaticPaths' fetchAllBlogs: rest of
\* fetchAllBlogs, then blogIndex.map(...) calls fetchBlog for every entry, each
\* up to its fetch(url), and Promise.all waits (an empty array fulfils at once)
GenIndexSettled ==
    /\ gen.pc = "index"
    /\ gen.inJson
    /\ LET r == fetchAllBlogs(upstream.index)
           n == Len(r.val)
       IN  IF r.ok
           THEN /\ requests' = issueFetches(requests,
                        [i \in 1..n |-> getR2Url(env, BlogPath(r.val[i].slug)).val])
                /\ gen' = [gen EXCEPT !.pc = IF n = 0 THEN "done" ELSE "fanout",
                                      !.inJson = FALSE,
                                      !.blogIndex = r.val,
                                      !.slots = [i \in 1..n |-> PendingSlot],
                                      !.all = IF n = 0
                                              THEN [PendingAll EXCEPT !.st = "fulfilled"]
                                              ELSE PendingAll]
                /\ configReads' = readConfigs(configReads, n)
                /\ UNCHANGED logged
           ELSE /\ gen' = [gen EXCEPT !.pc = "failed", !.inJson = FALSE, !.err = r.err]
                /\ logged' = Append(logged, [by |-> "fetchAllBlogs", err |-> r.err])
                /\ UNCHANGED <<requests, configReads>>
    /\ UNCHANGED <<env, siteBase, upstream, listing, pages, emitted, urlCase, firstBuild,
                   catUpstream, cat>>

\* `await fetch(url)` of the i-th fetchBlog call settles: the call throws (its
\* callback rejects, Promise.all rejects or keeps waiting, getStaticPaths throws),
\* or goes on to wait in `await response.json()`
ItemResponded(i) ==
    /\ gen.pc \in {"fanout", "failed"}
    /\ i \in 1..Len(gen.slots)
    /\ gen.slots[i].st = "pending"
    /\ i \notin gen.itemsInJson
    /\ IF throwsAtFetch(upstream.blogs[gen.blogIndex[i].slug])
       THEN LET slug == gen.blogIndex[i].slug
                r == fetchBlog(slug, upstream.blogs[slug])
                slots == [gen.slots EXCEPT
                             ![i] = settleSlot(gen.blogIndex[i], upstream.blogs[slug])]
                all == promiseAll(gen.all, slots, i)
            IN  /\ gen' = [gen EXCEPT !.slots = slots,
                                      !.all = all,
                                      !.pc = IF all.st = "fulfilled" THEN "done"
                                             ELSE IF all.st = "rejected" THEN "failed"
                                             ELSE "fanout",
                                      !.paths = all.val,
                                      !.err = all.err,
                                      !.arrived = Append(gen.arrived, i)]
                /\ logged' = Append(logged, [by |-> "fetchBlog", err |-> r.err])
       ELSE /\ gen' = [gen EXCEPT !.itemsInJson = gen.itemsInJson \cup {i}]
            /\ UNCHANGED logged
    /\ UNCHANGED <<env, siteBase, upstream, requests, listing, pages, emitted, urlCase, firstBuild,
                   configReads, catUpstream, cat>>

\* `await response.json()` of the i-th fetchBlog call settles: rest of
\* fetchBlog, the i-th callback returns or throws, Promise.all settles or keeps
\* waiting, and getStaticPaths returns paths or throws
ItemSettled(i) ==
    /\ gen.pc \in {"fanout", "failed"}
    /\ i \in gen.itemsInJson
    /\ gen.slots[i].st = "pending"
    /\ LET slug == gen.blogIndex[i].slug
           r == fetchBlog(slug, upstream.blogs[slug])
           slots == [gen.slots EXCEPT ![i] = settleSlot(gen.blogIndex[i], upstream.blogs[slug])]
           all == promiseAll(gen.all, slots, i)
       IN  /\ gen' = [gen EXCEPT !.slots = slots,
                                 !.itemsInJson = gen.itemsInJson \ {i},
                                 !.all = all,
                                 !.pc = IF all.st = "fulfilled" THEN "done"
                                        ELSE IF all.st = "rejected" THEN "failed"
                                        ELSE "fanout",
                                 !.paths = all.val,
                                 !.err = all.err,
                                 !.arrived = Append(gen.arrived, i)]
           /\ logged' = IF r.ok THEN logged
                        ELSE Append(logged, [by |-> "fetchBlog", err |-> r.err])
    /\ UNCHANGED <<env, siteBase, upstream, requests, listing, pages, emitted, urlCase, firstBuild,
                   configReads, catUpstream, cat>>

\* getStaticPaths has returned: one detail page is rendered per returned entry
EmitDetailPages ==
    /\ gen.pc = "done"
    /\ ~emitted
    /\ pages' = detailPages(siteBase, gen.paths)
    /\ emitted' = TRUE
    /\ UNCHANGED <<env, siteBase, upstream, requests, logged, listing, gen, urlCase, firstBuild,
                   configReads, catUpstream, cat>>

Next ==
    \/ ListingCallFetchAllBlogs
    \/ ListingIndexResponded
    \/ ListingIndexSettled
    \/ GenCallFetchAllBlogs
    \/ GenIndexResponded
    \/ GenIndexSettled
    \/ \E i \in 1..MaxItems : ItemResponded(i)
    \/ \E i \in 1..MaxItems : ItemSettled(i)
    \/ EmitDetailPages

Spec == Init /\ [][Next]_vars

\* ------------------------------------------------- building a second time
BuildFinished ==
    /\ listing.pc \in {"done", "failed"}
    /\ emitted \/ gen.pc = "failed"

\* `npm run build` once more against the same content source: a new process,
\* which keeps nothing of the first but the files it wrote
Rebuild ==
    /\ ~firstBuild.done
    /\ BuildFinished
    /\ firstBuild' = [done |-> TRUE, output |-> Output(listing, emitted, pages),
                      arrived |-> gen.arrived]
    /\ requests' = <<>>
    /\ logged' = <<>>
    /\ listing' = ListingStart
    /\ gen' = GenStart
    /\ pages' = <<>>
    /\ emitted' = FALSE
    /\ configReads' = 0
    /\ UNCHANGED <<env, siteBase, upstream, urlCase, catUpstream, cat>>

NextRebuild == Next \/ Rebuild

\* the content sources whose index entries differ in nothing but their slugs and
\* whose index has no total_items
PlainIndex(ix) ==
    /\ ix.body.total = AbsentTotal
    /\ \A i \in 1..Len(ix.body.items.v) : ix.body.items.v[i].name = "idx1"

InitPlain ==
    /\ env \in ConfiguredBases
    /\ siteBase = <<"/", "r">>
    /\ upstream \in {u \in Upstreams : PlainIndex(u.index)}
    /\ requests = <<>>
    /\ logged = <<>>
    /\ listing = ListingStart
    /\ gen = GenStart
    /\ pages = <<>>
    /\ emitted = FALSE
    /\ urlCase = NoUrlCase
    /\ firstBuild = NoBuild
    /\ configReads = 0
    /\ catUpstream = NoCatUpstream
    /\ cat = CatStart

SpecRebuild == InitPlain /\ [][NextRebuild]_vars

\* every step of the build that can be taken is taken: the framework runs both
\* page modules and renders what getStaticPaths returns, and every request
\* issued gets its response or its error
Fairness ==
    /\ WF_vars(ListingCallFetchAllBlogs)
    /\ WF_vars(ListingIndexResponded)
    /\ WF_vars(ListingIndexSettled)
    /\ WF_vars(GenCallFetchAllBlogs)
    /\ WF_vars(GenIndexResponded)
    /\ WF_vars(GenIndexSettled)
    /\ \A i \in 1..MaxItems : WF_vars(ItemResponded(i))
    /\ \A i \in 1..MaxItems : WF_vars(ItemSettled(i))
    /\ WF_vars(EmitDetailPages)

SpecFair == InitPlain /\ [][Next]_vars /\ Fairness

\* ------------------------------------------- the address builder alone
BaseInputs == {UndefinedStr} \cup {DefinedStr(s) : s \in SeqUpTo(BaseAtoms, MaxBaseLen)}
PathInputs == {BlogIndexPath} \cup {BlogPath(s) : s \in Slugs}

InitUrl ==
    /\ env = UndefinedStr
    /\ siteBase = <<"/">>
    /\ upstream = [index |-> NetworkFailure(NullBody),
                    blogs |-> [s \in Slugs |-> NetworkFailure(NoBlog)]]
    /\ requests = <<>>
    /\ logged = <<>>
    /\ listing = ListingStart
    /\ gen = GenStart
    /\ pages = <<>>
    /\ emitted = FALSE
    /\ firstBuild = NoBuild
    /\ configReads = 0
    /\ catUpstream = NoCatUpstream
    /\ cat = CatStart
    /\ urlCase \in {[NoUrlCase EXCEPT !.base = b, !.path = p] :
                        b \in BaseInputs, p \in PathInputs}

\* getR2Url(path) under the configured base, and under that base followed by "/"
BuildUrl ==
    /\ ~urlCase.done
    /\ urlCase' = [urlCase EXCEPT
                      !.done = TRUE,
                      !.out = getR2Url(urlCase.base, urlCase.path),
                      !.outSlash = getR2Url(DefinedStr(urlCase.base.val \o <<"/">>),
                                            urlCase.path)]
    /\ UNCHANGED <<env, siteBase, upstream, requests, logged, listing, gen, pages, emitted,
                   firstBuild, configReads, catUpstream, cat>>

NextUrl == BuildUrl

SpecUrl == InitUrl /\ [][NextUrl]_vars

\* ------------------------------------------------- fetchAllCategories alone
InitCategories ==
    /\ env \in ConfiguredBases
    /\ siteBase = <<"/">>
    /\ upstream = [index |-> NetworkFailure(NullBody),
                    blogs |-> [s \in Slugs |-> NetworkFailure(NoBlog)]]
    /\ requests = <<>>
    /\ logged = <<>>
    /\ listing = ListingStart
    /\ gen = GenStart
    /\ pages = <<>>
    /\ emitted = FALSE
    /\ urlCase = NoUrlCase
    /\ firstBuild = NoBuild
    /\ configReads = 0
    /\ catUpstream \in CatUpstreams
    /\ cat = CatStart

PendingCatSlot == [st |-> "pending", val |-> NoCategory, err |-> NoErr]

\* The promise of fetchCategory(slug) once its fetch completes
settleCatSlot(slug, resp) ==
    LET r == fetchCategory(slug, resp)
    IN  IF r.ok
        THEN [st |-> "fulfilled", val |-> r.val, err |-> NoErr]
        ELSE [st |-> "rejected", val |-> NoCategory, err |-> r.err]

\* fetchAllCategories: `await fetchCategoryIndex()` up to the call of fetch(url)
CatCallFetchCategoryIndex ==
    /\ cat.pc = "start"
    /\ LET url == getR2Url(env, CategoryIndexPath)
       IN  IF url.ok
           THEN /\ requests' = issueFetch(requests, url.val)
                /\ cat' = [cat EXCEPT !.pc = "index"]
           ELSE /\ cat' = [cat EXCEPT !.pc = "failed", !.err = url.err]
                /\ UNCHANGED requests
    /\ configReads' = readConfig(configReads)
    /\ UNCHANGED <<env, siteBase, upstream, logged, listing, gen, pages, emitted, urlCase,
                   firstBuild, catUpstream>>

\* `await fetch(url)` of fetchCategoryIndex settles: the helper throws, or goes
\* on to wait in `await response.json()`
CatIndexResponded ==
    /\ cat.pc = "index"
    /\ ~cat.inJson
    /\ LET r == fetchCategoryIndex(catUpstream.index)
       IN  IF throwsAtFetch(catUpstream.index)
           THEN /\ cat' = [cat EXCEPT !.pc = "failed", !.err = r.err]
                /\ logged' = Append(logged, [by |-> "fetchCategoryIndex", err |-> r.err])
           ELSE /\ cat' = [cat EXCEPT !.inJson = TRUE]
                /\ UNCHANGED logged
    /\ UNCHANGED <<env, siteBase, upstream, requests, listing, gen, pages, emitted, urlCase,
                   firstBuild, configReads, catUpstream>>

\* `await response.json()` of fetchCategoryIndex settles: rest of
\* fetchCategoryIndex, then slugs.map(...) calls fetchCategory for every slug,
\* each up to its fetch(url), and Promise.all waits; slugs.map throws a
\* TypeError when the decoded document is not an array
CatIndexSettled ==
    /\ cat.pc = "index"
    /\ cat.inJson
    /\ LET r == fetchCategoryIndex(catUpstream.index)
           n == Len(r.val.v)
       IN  IF ~r.ok
           THEN /\ cat' = [cat EXCEPT !.pc = "failed", !.inJson = FALSE, !.err = r.err]
                /\ logged' = Append(logged, [by |-> "fetchCategoryIndex", err |-> r.err])
                /\ UNCHANGED <<requests, configReads>>
           ELSE IF ~IsArray(r.val)
           THEN /\ cat' = [cat EXCEPT !.pc = "failed", !.inJson = FALSE,
                                      !.err = Err("type", 0, "slugs.map")]
                /\ UNCHANGED <<requests, configReads, logged>>
           ELSE /\ requests' = issueFetches(requests,
                        [i \in 1..n |-> getR2Url(env, CategoryPath(r.val.v[i])).val])
                /\ cat' = [cat EXCEPT !.pc = IF n = 0 THEN "done" ELSE "fanout",
                                      !.inJson = FALSE,
                                      !.slugs = r.val.v,
                                      !.slots = [i \in 1..n |-> PendingCatSlot],
                                      !.all = IF n = 0
                                              THEN [PendingAll EXCEPT !.st = "fulfilled"]
                                              ELSE PendingAll]
                /\ configReads' = readConfigs(configReads, n)
                /\ UNCHANGED logged
    /\ UNCHANGED <<env, siteBase, upstream, listing, gen, pages, emitted, urlCase, firstBuild,
                   catUpstream>>

\* `await fetch(url)` of the i-th fetchCategory call settles: the call throws
\* (Promise.all rejects or keeps waiting, fetchAllCategories throws), or goes
\* on to wait in `await response.json()`
CategoryResponded(i) ==
    /\ cat.pc \in {"fanout", "failed"}
    /\ i \in 1..Len(cat.slots)
    /\ cat.slots[i].st = "pending"
    /\ i \notin cat.itemsInJson
    /\ IF throwsAtFetch(catUpstream.categories[cat.slugs[i]])
       THEN LET slug == cat.slugs[i]
                r == fetchCategory(slug, catUpstream.categories[slug])
                slots == [cat.slots EXCEPT
                             ![i] = settleCatSlot(slug, catUpstream.categories[slug])]
                all == promiseAll(cat.all, slots, i)
            IN  /\ cat' = [cat EXCEPT !.slots = slots,
                                      !.all = all,
                                      !.pc = IF all.st = "fulfilled" THEN "done"
                                             ELSE IF all.st = "rejected" THEN "failed"
                                             ELSE "fanout",
                                      !.categories = all.val,
                                      !.err = all.err,
                                      !.arrived = Append(cat.arrived, i)]
                /\ logged' = Append(logged, [by |-> "fetchCategory", err |-> r.err])
       ELSE /\ cat' = [cat EXCEPT !.itemsInJson = cat.itemsInJson \cup {i}]
            /\ UNCHANGED logged
    /\ UNCHANGED <<env, siteBase, upstream, requests, listing, gen, pages, emitted, urlCase,
                   firstBuild, configReads, catUpstream>>

\* `await response.json()` of the i-th fetchCategory call settles: rest of
\* fetchCategory, Promise.all settles or keeps waiting, and fetchAllCategories
\* returns the categories or throws
CategorySettled(i) ==
    /\ cat.pc \in {"fanout", "failed"}
    /\ i \in cat.itemsInJson
    /\ cat.slots[i].st = "pending"
    /\ LET slug == cat.slugs[i]
           r == fetchCategory(slug, catUpstream.categories[slug])
           slots == [cat.slots EXCEPT ![i] = settleCatSlot(slug, catUpstream.categories[slug])]
           all == promiseAll(cat.all, slots, i)
       IN  /\ cat' = [cat EXCEPT !.slots = slots,
                                 !.itemsInJson = cat.itemsInJson \ {i},
                                 !.all = all,
                                 !.pc = IF all.st = "fulfilled" THEN "done"
                                        ELSE IF all.st = "rejected" THEN "failed"
                                        ELSE "fanout",
                                 !.categories = all.val,
                                 !.err = all.err,
                                 !.arrived = Append(cat.arrived, i)]
           /\ logged' = IF r.ok THEN logged
                        ELSE Append(logged, [by |-> "fetchCategory", err |-> r.err])
    /\ UNCHANGED <<env, siteBase, upstream, requests, listing, gen, pages, emitted, urlCase,
                   firstBuild, configReads, catUpstream>>

NextCategories ==
    \/ CatCallFetchCategoryIndex
    \/ CatIndexResponded
    \/ CatIndexSettled
    \/ \E i \in 1..MaxItems : CategoryResponded(i)
    \/ \E i \in 1..MaxItems : CategorySettled(i)

SpecCategories == InitCategories /\ [][NextCategories]_vars

\* ---------------------------------------------------------------- claims
\* what the upstream serves, for stating the claims against the inputs
IndexItems == upstream.index.body.items.v
SlugsOf(seq) == {seq[i].slug : i \in 1..Len(seq)}
InSuccessRange(status) == status \in 200..299
EndsInSlash(s) == s # <<>> /\ Last(s) = "/"
EndsInTwoSlashes(s) == Len(s) >= 2 /\ s[Len(s)] = "/" /\ s[Len(s) - 1] = "/"
SlotSettled(i) == gen.slots[i].st # "pending"
ItemResponse(i) == upstream.blogs[gen.blogIndex[i].slug]

\* C1 (as stated): after a successful getStaticPaths the slugs of the emitted
\* detail pages are the slugs of the index, and there are as many pages as
\* there are slugs in the index.
C1_OnePagePerDistinctSlug ==
    emitted =>
        /\ SlugsOf(pages) = SlugsOf(IndexItems)
        /\ Len(pages) = Cardinality(SlugsOf(IndexItems))

\* C1 (amended): after a successful getStaticPaths the slugs of the emitted
\* detail pages are the slugs of the index, and there is one page per index
\* entry, the i-th page for the i-th entry's slug; so there are as many pages
\* as slugs exactly when no slug is repeated in the index.
C1_OnePagePerIndexEntry ==
    emitted =>
        /\ SlugsOf(pages) = SlugsOf(IndexItems)
        /\ Len(pages) = Len(IndexItems)
        /\ \A i \in 1..Len(pages) : pages[i].slug = IndexItems[i].slug
        /\ (Len(pages) = Cardinality(SlugsOf(IndexItems)))
             <=> (\A i, j \in 1..Len(IndexItems) :
                     IndexItems[i].slug = IndexItems[j].slug => i = j)

C1_Witness ==
    /\ emitted
    /\ Len(pages) = 2
    /\ pages[1].slug # pages[2].slug

\* C2: once the index fetch or any item fetch of a generation has failed, the
\* generation has failed, getStaticPaths has returned no entry and no detail
\* page is emitted, also when other items' fetches succeeded.
GenIndexFetchFailed ==
    /\ gen.pc \notin {"start", "index"}
    /\ (FalsyStr(env) \/ ~fetchAllBlogs(upstream.index).ok)
SomeItemFetchFailed == \E i \in 1..Len(gen.slots) : gen.slots[i].st = "rejected"

C2_FailureEmitsNothing ==
    (GenIndexFetchFailed \/ SomeItemFetchFailed) =>
        /\ gen.pc = "failed"
        /\ gen.paths = <<>>
        /\ ~emitted
        /\ pages = <<>>

C2_Witness ==
    /\ gen.pc = "failed"
    /\ \E i, j \in 1..Len(gen.slots) :
          gen.slots[i].st = "fulfilled" /\ gen.slots[j].st = "rejected"

\* C3: a listing page rendered from a valid index has one card per element of
\* items, the i-th card for the i-th item, and shows the placeholder exactly
\* when items is empty, which is exactly when it has no card.
C3_ListingCards ==
    listing.pc = "done" =>
        /\ Len(listing.cards) = Len(IndexItems)
        /\ \A i \in 1..Len(IndexItems) :
              /\ listing.cards[i].href = siteBase \o <<"/", "blog", "/", IndexItems[i].slug>>
              /\ listing.cards[i].title = IndexItems[i].name
              /\ listing.cards[i].summary = IndexItems[i].summary
        /\ listing.placeholder <=> (IndexItems = <<>>)
        /\ listing.placeholder <=> (listing.cards = <<>>)

C3_Witness ==
    /\ listing.pc = "done"
    /\ Len(listing.cards) = 2
    /\ listing.cards[1].href # listing.cards[2].href
    /\ ~listing.placeholder

\* A link resolves to an emitted file when it is the address the file is served
\* at: the build output is served under the deployment prefix ("project sites
\* are served at /repo-name/"), a file <dir>/index.html at the address of <dir>.
LinkResolvesTo(href, prefix, file) ==
    href \o <<"/", "index.html">> = (IF EndsInSlash(prefix) THEN Front(prefix) ELSE prefix) \o file

\* C4: after a successful build, the link the listing page renders for each
\* index entry resolves to the detail page emitted for that slug.
C4_ListingLinksResolve ==
    (listing.pc = "done" /\ emitted) =>
        \A i \in 1..Len(listing.cards) :
            \E j \in 1..Len(pages) :
                /\ pages[j].slug = listing.blogs[i].slug
                /\ LinkResolvesTo(listing.cards[i].href, siteBase, pages[j].path)

\* C5: a response with a status outside 200..299 makes fetchAllBlogs and
\* fetchBlog fail with an error carrying that status, never return a value;
\* and after such an index response generation has failed, has issued no item
\* request and has emitted nothing.
C5_StatusErrors ==
    /\ (/\ listing.pc \in {"done", "failed"}
        /\ ~FalsyStr(env)
        /\ upstream.index.net
        /\ ~InSuccessRange(upstream.index.status))
       => /\ listing.pc = "failed"
          /\ listing.err.kind = "status"
          /\ listing.err.status = upstream.index.status
          /\ listing.cards = <<>>
    /\ (/\ gen.pc \notin {"start", "index"}
        /\ ~FalsyStr(env)
        /\ upstream.index.net
        /\ ~InSuccessRange(upstream.index.status))
       => /\ gen.pc = "failed"
          /\ gen.err.kind = "status"
          /\ gen.err.status = upstream.index.status
          /\ gen.slots = <<>>
          /\ gen.paths = <<>>
          /\ ~emitted
          /\ pages = <<>>
    /\ \A i \in 1..Len(gen.slots) :
          (/\ SlotSettled(i)
           /\ ItemResponse(i).net
           /\ ~InSuccessRange(ItemResponse(i).status))
          => /\ gen.slots[i].st = "rejected"
             /\ gen.slots[i].err.kind = "status"
             /\ gen.slots[i].err.status = ItemResponse(i).status
             /\ gen.pc = "failed"

C5_Witness ==
    /\ upstream.index.status = 404
    /\ gen.pc = "failed"
    /\ gen.err = Err("status", 404, "index")
    /\ listing.pc = "failed"

\* C6: for a successful, decodable index response fetchAllBlogs returns the
\* items array when the body is an object with an array-valued items field,
\* whatever total_items is, and fails with a format error otherwise.
HasItemsArray(body) == body.t = "object" /\ body.items.t = "array"
DecodedIndex ==
    /\ ~FalsyStr(env)
    /\ upstream.index.net
    /\ InSuccessRange(upstream.index.status)
    /\ upstream.index.json

C6_IndexFormat ==
    /\ (listing.pc \in {"done", "failed"} /\ DecodedIndex) =>
          IF HasItemsArray(upstream.index.body)
          THEN listing.pc = "done" /\ listing.blogs = IndexItems
          ELSE listing.pc = "failed" /\ listing.err.kind = "format"
    /\ (gen.pc \notin {"start", "index"} /\ DecodedIndex) =>
          IF HasItemsArray(upstream.index.body)
          THEN gen.blogIndex = IndexItems /\ gen.err.kind # "format"
          ELSE gen.pc = "failed" /\ gen.err.kind = "format"

C6_Witness ==
    /\ listing.pc = "done"
    /\ upstream.index.body.total.t = "number"
    /\ upstream.index.body.total.v # Len(listing.blogs)
    /\ Len(listing.blogs) = 2

\* C7: an item response that decodes to an object without the body field makes
\* fetchBlog fail with a format error, and generation aborts without a page.
C7_MissingBodyIsFormatError ==
    \A i \in 1..Len(gen.slots) :
        (/\ SlotSettled(i)
         /\ ItemResponse(i).net
         /\ InSuccessRange(ItemResponse(i).status)
         /\ ItemResponse(i).json
         /\ ~ItemResponse(i).body.body.set)
        => /\ gen.slots[i].st = "rejected"
           /\ gen.slots[i].err.kind = "format"
           /\ gen.pc = "failed"
           /\ ~emitted
           /\ pages = <<>>

\* C8: with the base address absent or empty every fetch helper fails with the
\* configuration error and no request is ever issued.
C8_ConfigErrorBeforeRequest ==
    FalsyStr(env) =>
        /\ requests = <<>>
        /\ listing.pc \in {"start", "failed"}
        /\ listing.pc = "failed" => listing.err.kind = "config"
        /\ gen.pc \in {"start", "failed"}
        /\ gen.pc = "failed" => gen.err.kind = "config"
        /\ \A s \in Slugs :
              /\ ~getR2Url(env, BlogPath(s)).ok
              /\ getR2Url(env, BlogPath(s)).err.kind = "config"
        /\ ~emitted

C8_Witness ==
    /\ env.set
    /\ env.val = <<>>
    /\ listing.pc = "failed"
    /\ gen.pc = "failed"

\* C9 (as stated): for every base b not ending in "/" the address built under
\* b followed by "/" is the address built under b.
C9_SlashInsensitive ==
    (urlCase.done /\ urlCase.base.set /\ ~EndsInSlash(urlCase.base.val)) =>
        urlCase.outSlash = urlCase.out

\* C9 (amended): for every non-empty base b not ending in "/" the address built
\* under b followed by "/" is the address built under b.
C9_SlashInsensitiveNonEmpty ==
    (/\ urlCase.done
     /\ urlCase.base.set
     /\ urlCase.base.val # <<>>
     /\ ~EndsInSlash(urlCase.base.val)) =>
        /\ urlCase.out.ok
        /\ urlCase.outSlash = urlCase.out

C9_Witness ==
    /\ urlCase.done
    /\ urlCase.base = DefinedStr(<<"h", "x">>)
    /\ urlCase.out.ok
    /\ urlCase.outSlash.ok

\* the built address has no "/" right before the "/" that joins base and path
NoDoubledSeparatorAtJoin(url, path) ==
    LET join == Len(url) - Len(path)
    IN  /\ join >= 1
        /\ url[join] = "/"
        /\ join > 1 => url[join - 1] # "/"

\* C10 (as stated): however many trailing separators the base has, the built
\* address has no doubled separator at the join.
C10_NeverDoubledSeparator ==
    (urlCase.done /\ urlCase.out.ok) =>
        NoDoubledSeparatorAtJoin(urlCase.out.val, urlCase.path)

\* C10 (amended): one trailing separator is stripped; for a base entered with
\* at most one trailing separator the built address has no doubled separator
\* at the join.
C10_SingleTrailingSeparatorStripped ==
    (urlCase.done /\ urlCase.out.ok /\ ~EndsInTwoSlashes(urlCase.base.val)) =>
        NoDoubledSeparatorAtJoin(urlCase.out.val, urlCase.path)

C10_Witness ==
    /\ urlCase.done
    /\ urlCase.base = DefinedStr(<<"h", "x", "/">>)
    /\ urlCase.out.ok
    /\ urlCase.out.val = <<"h", "x", "/">> \o urlCase.path

\* the number of positions of seq holding x
Count(seq, x) == Cardinality({i \in 1..Len(seq) : seq[i] = x})
\* the helper calls made so far: fetchAllBlogs by the listing page and by
\* getStaticPaths, and one fetchBlog per callback of blogIndex.map
IndexCalls ==
    (IF listing.pc # "start" THEN 1 ELSE 0) + (IF gen.pc # "start" THEN 1 ELSE 0)
BlogCalls(s) == Cardinality({i \in 1..Len(gen.slots) : gen.blogIndex[i].slug = s})
CallsMade == IndexCalls + Len(gen.slots)

\* C11 (as stated): every call of fetchAllBlogs or fetchBlog made so far, ended
\* well or not, has issued exactly one request.
C11_OneRequestPerCall ==
    Len(requests) = CallsMade

\* C11 (amended): with a configured, non-empty base every call of fetchAllBlogs
\* or fetchBlog made so far, ended well or not, has issued exactly one request,
\* to its own address; with the base absent or empty a call issues none.
C11_OneRequestPerConfiguredCall ==
    IF FalsyStr(env)
    THEN requests = <<>>
    ELSE /\ Len(requests) = CallsMade
         /\ Count(requests, getR2Url(env, BlogIndexPath).val) = IndexCalls
         /\ \A s \in Slugs :
               Count(requests, getR2Url(env, BlogPath(s)).val) = BlogCalls(s)

C11_Witness ==
    /\ ~FalsyStr(env)
    /\ listing.pc = "done"
    /\ gen.pc = "failed"
    /\ Len(gen.arrived) = 2
    /\ \E i \in 1..2 : gen.slots[i].st = "fulfilled"
    /\ Len(requests) = 4

\* C12: every emitted detail page shows the name and the body of the document
\* served for its own slug, under any completion order of the item fetches.
C12_PageShowsFetchedRecord ==
    emitted =>
        \A i \in 1..Len(pages) :
            LET doc == upstream.blogs[pages[i].slug].body
            IN  /\ pages[i].title = doc.name
                /\ pages[i].body = doc.body

C12_Witness ==
    /\ emitted
    /\ Len(pages) = 2
    /\ pages[1].slug # pages[2].slug
    /\ pages[1].title # pages[2].title
    /\ gen.arrived = <<2, 1>>

\* C13: the record of every entry getStaticPaths returns, and so of every
\* detail page, has the slug it was requested by.
C13_RecordSlugIsRequestedSlug ==
    \A i \in 1..Len(gen.paths) :
        gen.paths[i].props.blog.slug = gen.paths[i].params.slug

\* C14: a second build against the same content source ends with the output
\* of the first: the same listing page and the same detail pages in the same
\* order, whatever the order the item responses came in in either build.
C14_RebuildSameOutput ==
    (firstBuild.done /\ BuildFinished) =>
        Output(listing, emitted, pages) = firstBuild.output

C14_Witness ==
    /\ firstBuild.done
    /\ BuildFinished
    /\ emitted
    /\ Len(pages) = 2
    /\ pages[1] # pages[2]
    /\ firstBuild.arrived = <<1, 2>>
    /\ gen.arrived = <<2, 1>>

\* C15: an index response whose items is the empty array is accepted; the
\* listing page then shows the placeholder and no card, getStaticPaths returns
\* no entry, no item request is issued and no detail page is produced.
EmptyIndexServed ==
    /\ DecodedIndex
    /\ HasItemsArray(upstream.index.body)
    /\ IndexItems = <<>>

C15_EmptyIndex ==
    EmptyIndexServed =>
        /\ listing.pc # "failed"
        /\ gen.pc \notin {"failed", "fanout"}
        /\ listing.pc = "done" => (listing.placeholder /\ listing.cards = <<>>)
        /\ gen.slots = <<>>
        /\ gen.paths = <<>>
        /\ pages = <<>>
        /\ \A k \in 1..Len(requests) :
              requests[k] = <<"h", "/", "blogs", "/", "_index.json">>

C15_Witness ==
    /\ EmptyIndexServed
    /\ listing.pc = "done"
    /\ listing.placeholder
    /\ emitted
    /\ pages = <<>>
    /\ Len(requests) = 2

\* C16: getStaticPaths has returned, and a detail page is rendered, only when
\* the response to every item request has arrived and every callback has
\* returned.
C16_JoinBeforeRender ==
    (gen.pc = "done" \/ gen.paths # <<>> \/ emitted \/ pages # <<>>) =>
        /\ \A i \in 1..Len(gen.slots) : gen.slots[i].st = "fulfilled"
        /\ Len(gen.arrived) = Len(gen.slots)
        /\ Len(gen.slots) = Len(IndexItems)

C16_Witness ==
    /\ emitted
    /\ Len(pages) = 2
    /\ Len(gen.arrived) = 2

\* C17: the cards of the listing page and the entries getStaticPaths returns
\* are in the order of the index, in whatever order the item responses came.
C17_IndexOrderKept ==
    /\ listing.pc = "done" =>
          /\ Len(listing.cards) = Len(IndexItems)
          /\ \A i \in 1..Len(IndexItems) :
                /\ listing.cards[i].href = linkFor(siteBase, IndexItems[i].slug)
                /\ listing.cards[i].title = IndexItems[i].name
    /\ gen.pc = "done" =>
          /\ Len(gen.paths) = Len(IndexItems)
          /\ \A i \in 1..Len(IndexItems) :
                /\ gen.paths[i].params.slug = IndexItems[i].slug
                /\ gen.paths[i].props.blog = upstream.blogs[IndexItems[i].slug].body

C17_Witness ==
    /\ listing.pc = "done"
    /\ gen.pc = "done"
    /\ gen.arrived = <<2, 1>>
    /\ gen.paths[1].params.slug = IndexItems[1].slug
    /\ gen.paths[1].params.slug # gen.paths[2].params.slug

\* C18: generation has failed as soon as one item fetch has failed, other
\* requests still in flight or not; those requests are not cancelled, their
\* responses can still arrive; and once generation has failed, no step changes
\* its error, returns an entry or emits a page.
PendingSlots == {j \in 1..Len(gen.slots) : gen.slots[j].st = "pending"}

C18_FailFastAndFinal ==
    /\ [](SomeItemFetchFailed => gen.pc = "failed")
    /\ []((gen.pc = "failed") =>
            \A j \in PendingSlots : ENABLED ItemResponded(j) \/ ENABLED ItemSettled(j))
    /\ [][gen.pc = "failed" =>
            /\ gen'.pc = "failed"
            /\ gen'.err = gen.err
            /\ gen'.paths = <<>>
            /\ pages' = <<>>
            /\ emitted' = FALSE]_vars

C18_Witness ==
    /\ gen.pc = "failed"
    /\ Len(gen.arrived) = 2
    /\ gen.slots[gen.arrived[1]].st = "rejected"
    /\ gen.slots[gen.arrived[2]].st = "fulfilled"
    /\ gen.err = gen.slots[gen.arrived[1]].err
    /\ pages = <<>>

\* C19: when every request issued gets its response or error, generation ends
\* and stays either succeeded, with one emitted page per index entry, or
\* aborted, with nothing emitted; it is never both, never emits anything else,
\* and no step leaves either state.
GenSucceeded ==
    /\ gen.pc = "done"
    /\ emitted
    /\ Len(pages) = Len(IndexItems)
    /\ \A i \in 1..Len(pages) : pages[i].slug = IndexItems[i].slug
GenAborted ==
    /\ gen.pc = "failed"
    /\ ~emitted
    /\ pages = <<>>

C19_TerminatesInOneOfTwo ==
    /\ <>[](GenSucceeded \/ GenAborted)
    /\ [](~(GenSucceeded /\ GenAborted))
    /\ []((emitted \/ pages # <<>>) => GenSucceeded)
    /\ [][/\ GenSucceeded => (GenSucceeded' /\ pages' = pages)
          /\ GenAborted => (GenAborted' /\ gen'.err = gen.err)]_vars

C19_Witness ==
    /\ GenAborted
    /\ Len(gen.arrived) = 2
    /\ gen.slots[1].st = "fulfilled"
    /\ gen.slots[2].st = "rejected"
    /\ listing.pc = "done"

\* C20 (as stated): a finished build has issued exactly one request to the
\* index address.
IndexRequests == Count(requests, <<"h", "/", "blogs", "/", "_index.json">>)

C20_IndexFetchedOnce ==
    (BuildFinished /\ ~FalsyStr(env)) => IndexRequests = 1

\* C20 (amended): the index is requested once by the listing page and once by
\* getStaticPaths: a finished build has issued exactly two requests to the
\* index address, and against an unchanged source both pages are derived from
\* the same items.
C20_IndexFetchedOncePerPage ==
    ~FalsyStr(env) =>
        /\ IndexRequests = IndexCalls
        /\ BuildFinished => IndexRequests = 2
        /\ (listing.pc = "done" /\ gen.pc \in {"fanout", "done"}) =>
              listing.blogs = gen.blogIndex

C20_Witness ==
    /\ BuildFinished
    /\ listing.pc = "done"
    /\ emitted
    /\ Len(pages) = 1
    /\ IndexRequests = 2
    /\ Len(requests) = 3

\* every request issued so far is addressed under the normalized base "h"
SameBaseEverywhere ==
    \A i \in 1..Len(requests) :
        /\ Len(requests[i]) > 2
        /\ SubSeq(requests[i], 1, 2) = <<"h", "/">>

\* C21 (as stated): the base address is read from the configuration once per
\* build, no fetch reads it again, and every request is resolved against the
\* same base.
C21_ConfigReadOnce ==
    /\ configReads <= 1
    /\ SameBaseEverywhere

\* C21 (amended): every call of fetchAllBlogs or fetchBlog reads the base
\* address from the configuration again (one read per call); the configuration
\* never changes during a build, so every request is resolved against the same
\* base.
C21_RereadButStable ==
    /\ [](configReads = CallsMade /\ SameBaseEverywhere)
    /\ [][env' = env]_vars

C21_Witness ==
    /\ configReads = 4
    /\ Len(requests) = 4
    /\ Len(gen.slots) = 2

\* the error a helper raises on a response: none when the response is usable
RaisedOn(resp, subject, itemsRequired) ==
    IF ~resp.net THEN [kind |-> "network", status |-> 0, subject |-> ""]
    ELSE IF ~InSuccessRange(resp.status)
         THEN [kind |-> "status", status |-> resp.status, subject |-> subject]
    ELSE IF ~resp.json THEN [kind |-> "json", status |-> 0, subject |-> ""]
    ELSE IF itemsRequired /\ ~HasItemsArray(resp.body)
         THEN [kind |-> "format", status |-> 0, subject |-> "index"]
    ELSE NoErr
Logged(by, e) == \E k \in 1..Len(logged) : logged[k] = [by |-> by, err |-> e]
ListingFailedInHelper == listing.pc = "failed" /\ ~FalsyStr(env)
GenFailedInIndexHelper == gen.pc = "failed" /\ gen.slots = <<>> /\ ~FalsyStr(env)
RejectedSlots == {i \in 1..Len(gen.slots) : gen.slots[i].st = "rejected"}

\* C22: an error raised inside fetchAllBlogs or fetchBlog (network failure,
\* non-2xx status, undecodable body, bad index format) reaches the caller as
\* that same error and has been logged by the helper: the caller has failed
\* with it and holds no value in its place, and there is one log entry per
\* failed helper call.
C22_ErrorsLoggedAndRethrown ==
    /\ (listing.pc \in {"done", "failed"} /\ ~FalsyStr(env)) =>
          LET e == RaisedOn(upstream.index, "index", TRUE)
          IN  IF e = NoErr THEN listing.pc = "done"
              ELSE /\ listing.pc = "failed"
                   /\ listing.err = e
                   /\ listing.blogs = <<>> /\ listing.cards = <<>> /\ ~listing.placeholder
                   /\ Logged("fetchAllBlogs", e)
    /\ (gen.pc \notin {"start", "index"} /\ ~FalsyStr(env)) =>
          LET e == RaisedOn(upstream.index, "index", TRUE)
          IN  e # NoErr =>
                   /\ gen.pc = "failed"
                   /\ gen.err = e
                   /\ gen.blogIndex = <<>> /\ gen.slots = <<>> /\ gen.paths = <<>>
                   /\ Logged("fetchAllBlogs", e)
    /\ \A i \in 1..Len(gen.slots) :
          SlotSettled(i) =>
              LET e == RaisedOn(ItemResponse(i), gen.blogIndex[i].slug, FALSE)
              IN  IF e = NoErr THEN gen.slots[i].st = "fulfilled"
                  ELSE /\ gen.slots[i].st = "rejected"
                       /\ gen.slots[i].err = e
                       /\ gen.slots[i].val = NoPath
                       /\ Logged("fetchBlog", e)
                       /\ gen.pc = "failed"
                       /\ \E j \in RejectedSlots : gen.err = gen.slots[j].err
    /\ Len(logged) = (IF ListingFailedInHelper THEN 1 ELSE 0)
                      + (IF GenFailedInIndexHelper THEN 1 ELSE 0)
                      + Cardinality(RejectedSlots)

C22_Witness ==
    /\ gen.pc = "failed"
    /\ Len(gen.slots) = 2
    /\ gen.slots[1].err.kind = "status"
    /\ gen.slots[2].err.kind = "json"
    /\ Len(logged) = 2
    /\ gen.err \in {logged[1].err, logged[2].err}

\* the addresses under the normalized base "h" (configured as "h/")
IndexAddress == <<"h", "/", "blogs", "/", "_index.json">>
ItemAddress(s) == <<"h", "/", "blogs", "/", s, ".json">>

\* C23: every request of fetchAllBlogs goes to <normalized base>/blogs/_index.json
\* and every request of fetchBlog(slug) to <normalized base>/blogs/<slug>.json:
\* each call made so far accounts for one request to its own address, and no
\* other address has been requested.
C23_ExactAddresses ==
    ~FalsyStr(env) =>
        /\ \A i \in 1..Len(requests) :
              requests[i] \in {IndexAddress} \cup {ItemAddress(s) : s \in Slugs}
        /\ Count(requests, IndexAddress) = IndexCalls
        /\ \A s \in Slugs : Count(requests, ItemAddress(s)) = BlogCalls(s)

C23_Witness ==
    /\ env = DefinedStr(<<"h", "/">>)
    /\ Count(requests, IndexAddress) = 2
    /\ Count(requests, ItemAddress("a")) = 1
    /\ Count(requests, ItemAddress("b")) = 1

\* getStaticPaths has received a usable index and mapped it to fetchBlog calls
FannedOut ==
    /\ ~FalsyStr(env)
    /\ gen.pc \notin {"start", "index"}
    /\ RaisedOn(upstream.index, "index", TRUE) = NoErr
ItemRequests == Len(requests) - Count(requests, IndexAddress)
EntriesWithSlug(s) == Cardinality({i \in 1..Len(IndexItems) : IndexItems[i].slug = s})
InFlight == Cardinality({i \in 1..Len(gen.slots) : gen.slots[i].st = "pending"})

\* C24: once getStaticPaths has mapped an index of n entries, n item requests
\* have been issued, one per entry (a slug listed twice is requested twice),
\* already before any item response has arrived; every request not yet
\* answered is in flight, all n of them at first.
C24_OneRequestPerEntryAtOnce ==
    FannedOut =>
        /\ Len(gen.slots) = Len(IndexItems)
        /\ ItemRequests = Len(IndexItems)
        /\ \A s \in Slugs : Count(requests, ItemAddress(s)) = EntriesWithSlug(s)
        /\ InFlight = Len(IndexItems) - Len(gen.arrived)
        /\ gen.arrived = <<>> => InFlight = Len(IndexItems)

C24_Witness ==
    /\ FannedOut
    /\ gen.pc = "fanout"
    /\ gen.arrived = <<>>
    /\ Len(IndexItems) = MaxItems
    /\ ItemRequests = MaxItems
    /\ InFlight = MaxItems

\* the index fetch of getStaticPaths fails: on the configuration, or on the
\* response
IndexFetchFails ==
    \/ FalsyStr(env)
    \/ RaisedOn(upstream.index, "index", TRUE) # NoErr

\* C25: while getStaticPaths has not received the index, no item request has
\* been issued; and when its index fetch fails (no base configured, failed
\* request, non-2xx status, undecodable body or bad format) no item request
\* is issued in any state of the build.
C25_NoItemRequestWithoutIndex ==
    (gen.pc \in {"start", "index"} \/ IndexFetchFails) =>
        /\ ItemRequests = 0
        /\ \A s \in Slugs : Count(requests, ItemAddress(s)) = 0
        /\ gen.slots = <<>>
        /\ gen.arrived = <<>>

C25_Witness ==
    /\ gen.pc = "failed"
    /\ gen.err.kind = "format"
    /\ listing.pc = "failed"
    /\ Len(requests) = 2
    /\ ItemRequests = 0

CategorySlugs == catUpstream.index.body.v
CategoryIndexAddress == <<"h", "/", "categories", "/", "_index.json">>
CategoryAddress(s) == <<"h", "/", "categories", "/", s, ".json">>
CategoryResponse(i) == catUpstream.categories[CategorySlugs[i]]
\* the category index fetch fails, or what it returns is not a list
CategoryIndexFails ==
    \/ FalsyStr(env)
    \/ RaisedOn(catUpstream.index, "category index", FALSE) # NoErr
    \/ catUpstream.index.body.t # "array"
SomeCategoryFetchFailed == \E i \in 1..Len(cat.slots) : cat.slots[i].st = "rejected"

\* C26: fetchAllCategories requests the category index first and no category
\* before it has arrived; then one category per listed slug, all at once; when
\* it returns, it returns the document served for the i-th listed slug at
\* position i, whatever the order the responses arrived in; and when the index
\* fetch or any category fetch fails it fails and returns nothing.
C26_AllCategoriesOrNone ==
    /\ cat.pc \in {"start", "index"} =>
          \A i \in 1..Len(requests) : requests[i] = CategoryIndexAddress
    /\ (cat.pc \notin {"start", "index"} /\ ~CategoryIndexFails) =>
          /\ cat.slugs = CategorySlugs
          /\ Count(requests, CategoryIndexAddress) = 1
          /\ Len(requests) = 1 + Len(CategorySlugs)
          /\ \A s \in Slugs :
                Count(requests, CategoryAddress(s)) =
                    Cardinality({i \in 1..Len(CategorySlugs) : CategorySlugs[i] = s})
    /\ cat.pc = "done" =>
          /\ ~CategoryIndexFails
          /\ Len(cat.categories) = Len(CategorySlugs)
          /\ \A i \in 1..Len(CategorySlugs) :
                /\ RaisedOn(CategoryResponse(i), CategorySlugs[i], FALSE) = NoErr
                /\ cat.categories[i] = CategoryResponse(i).body
    /\ ((cat.pc \notin {"start", "index"} /\ CategoryIndexFails) \/ SomeCategoryFetchFailed) =>
          /\ cat.pc = "failed"
          /\ cat.err # NoErr
          /\ cat.categories = <<>>

C26_Witness ==
    /\ cat.pc = "done"
    /\ cat.arrived = <<2, 1>>
    /\ cat.categories[1].name = "cat-a"
    /\ cat.categories[2].name = "cat-b"

====
